---- MODULE Spec2Model ----
(***************************************************************************)
(* Model of the load-generation engine of API-Stress-Lab                   *)
(* (src/load_test.py) together with the entry paths that drive it: the     *)
(* /run-test job (src/api_main.py, src/tasks.py), the /ws/live-test socket,*)
(* the CLI, and a direct call of run_load_test without a callback.         *)
(*                                                                         *)
(* The engine runs on one asyncio event loop: a coroutine runs without     *)
(* interruption from one await to the next, so each action below is the    *)
(* code between two suspension points of worker() or run_load_test().      *)
(* Time is counted in ticks of TickMs milliseconds; one clock stands for   *)
(* both time.perf_counter() and time.time().                               *)
(***************************************************************************)
EXTENDS Integers, Sequences, FiniteSets, TLC

\* ---------------------------------------------------------------- bounds
MaxRequests == 2
MaxConcurrency == 2
MaxTime == 2
\* longest outcome list given to the aggregation alone
MaxOutcomes == 10
\* longest latency list given to percentile() alone
MaxSamples == 5

\* ------------------------------------------------------ program constants
TickMs == 250
\* 0.5 seconds, in ticks
SampleInterval == 2
MaxTotalRequests == 1000
MaxConcurrencyField == 200
HttpErrorThreshold == 400

AllowedMethods == {"GET", "POST", "PUT", "DELETE", "PATCH", "HEAD", "OPTIONS"}

\* ------------------------------------------------------------ input sets
Workers == 1..MaxRequests
Methods == {"GET", "FOO"}
Urls == {"http://t/", "not a url"}
\* a well-formed request, one with a malformed url, one with a bad method
Targets == {<<"http://t/", "GET">>, <<"not a url", "GET">>, <<"http://t/", "FOO">>}
StatusCodes == {200, 500}
\* status_code = None
None == -1
\* the transport call raised instead of returning a response
Exc == 0
Responses == StatusCodes \cup {Exc}
Entries == {"job", "ws", "cli", "direct"}
\* latencies and ranks given to percentile() alone
LatValues == {10, 20, 30, 40}
Ranks == {0, 25, 50, 90, 95, 99, 100}

VARIABLES
    cfg,          \* url, method, total_requests, concurrency, callback, entry
    runState,     \* Created, Rejected, Queued, Running, Completed, Raised
    value,        \* semaphore._value
    waiters,      \* semaphore._waiters (worker ids, FIFO)
    pc,           \* position of each worker() task
    start,        \* worker's local `start` (0 once the worker has used it)
    results,      \* the shared results list
    completed,    \* state["completed"]
    timeseries,   \* the shared timeseries list
    events,       \* progress dicts passed to progress_callback, in call order
    calls,        \* number of client.request() invocations
    clientClosed, \* the AsyncClient context has exited
    result,       \* the value run_load_test returned
    holding,      \* workers inside `async with semaphore` (permit granted)
    now,          \* the clock
    seqNo,        \* ordinal of each worker's pending transport call (0: none)
    record,       \* metrics_json of the run's TestRun row, as a JSON object
    channel,      \* payloads published on the run's channel, in order
    job,          \* what run_test_job has done after run_load_test returned
    obs           \* the /ws/run/{run_id} handler serving one client

vars == <<cfg, runState, value, waiters, pc, start, results, completed,
          timeseries, events, calls, clientClosed, result, holding, now,
          seqNo, record, channel, job, obs>>

\* the state outside the engine: the database row, the channel, the job's
\* last steps and the observer
outside == <<record, channel, job, obs>>

\* ------------------------------------------------------------- validation
\* pydantic HttpUrl
UrlWellFormed(url) == url = "http://t/"

\* LoadTestRequest field constraints
RequestModelValid(c) ==
    /\ UrlWellFormed(c.url)
    /\ c.method \in AllowedMethods
    /\ c.total_requests >= 1 /\ c.total_requests <= MaxTotalRequests
    /\ c.concurrency >= 1 /\ c.concurrency <= MaxConcurrencyField

\* whether the entry path's progress callback suspends (awaits) before it
\* returns: the websocket callback awaits ws.send_json; the job's _cb and the
\* CLI's debug_progress contain no await and run to completion in place
CallbackSuspends(entry) == entry = "ws"

\* whether the caller runs run_load_test under asyncio.run, which cancels the
\* tasks still pending when run_load_test raises
UnderAsyncioRun(entry) == entry \in {"job", "cli"}

\* --------------------------------------------------------- pure functions
RECURSIVE SumLat(_)
SumLat(rs) == IF rs = <<>> THEN 0 ELSE rs[1][1] + SumLat(Tail(rs))

IsHttpError(r) == r[2] # None /\ r[2] >= HttpErrorThreshold
IsHttp(r) == r[2] # None
IsTransportError(r) == r[3]
IsSuccess(r) == r[2] # None /\ r[2] < HttpErrorThreshold

\* len([r for r in results if ...]) for the three partitions
HttpFailures(rs) == Cardinality({i \in 1..Len(rs) : IsHttpError(rs[i])})
TransportErrors(rs) == Cardinality({i \in 1..Len(rs) : IsTransportError(rs[i])})
\* (variant: the successes are counted up to the first failure only)
Successes_UntilFirstFailure(rs) ==
    Cardinality({i \in 1..Len(rs) : \A j \in 1..i : IsSuccess(rs[j])})

Successes(rs) == Cardinality({i \in 1..Len(rs) : IsSuccess(rs[i])})

\* (variant: the `is not None` test is replaced by counting every failure)
HttpErrorsSoFar_AllFailures(rs) ==
    HttpFailures(rs) + TransportErrors(rs)

\* http_errors_so_far
HttpErrorsSoFar(rs) == HttpFailures(rs)

\* round(x, 2) of x = num/den (num, den >= 0), in hundredths, ties to even
Round2(num, den) ==
    LET q == (num * 100) \div den
        r == (num * 100) % den
    IN  IF 2 * r > den \/ (2 * r = den /\ q % 2 = 1) THEN q + 1 ELSE q

\* round(avg_latency, 2) in hundredths of a millisecond
AvgLatencySoFar(rs) ==
    IF rs = <<>> THEN 0 ELSE Round2(SumLat(rs) * TickMs, Len(rs))

\* ---------------------------------------------------------------- Init
Init ==
    /\ cfg \in { c \in [url : Urls, method : Methods,
                        total_requests : 0..MaxRequests,
                        concurrency : (-1)..MaxConcurrency,
                        callback : BOOLEAN, entry : Entries] :
                 /\ <<c.url, c.method>> \in Targets
                 /\ c.callback = (c.entry # "direct") }
    /\ runState = "Created"
    /\ value = 0
    /\ waiters = <<>>
    /\ pc = [w \in Workers |-> "absent"]
    /\ start = [w \in Workers |-> 0]
    /\ results = <<>>
    /\ completed = 0
    /\ timeseries = <<>>
    /\ events = <<>>
    /\ calls = 0
    /\ clientClosed = FALSE
    /\ result = [set |-> FALSE]
    /\ holding = {}
    /\ now = 0
    /\ seqNo = [w \in Workers |-> 0]
    /\ record = [absent |-> TRUE]
    /\ channel = <<>>
    /\ job = [committed |-> FALSE, doneSent |-> FALSE]
    /\ obs = [pc |-> "none", subscribed |-> FALSE, snapshot |-> [absent |-> TRUE],
              inbox |-> <<>>, delivered |-> <<>>]

\* ------------------------------------------------------------- semaphore
\* (variant: the test for an exhausted counter is missing)
Locked_NoValueTest == waiters # <<>>

\* Semaphore.locked(): no permit left, or somebody is queued
Locked == value = 0 \/ waiters # <<>>

\* index in `ws` of the first waiter whose future is not done, 0 if none
FirstWaiting(ws, p) ==
    IF \E i \in 1..Len(ws) : p[ws[i]] = "waiting"
    THEN CHOOSE i \in 1..Len(ws) :
            /\ p[ws[i]] = "waiting"
            /\ \A j \in 1..(i - 1) : p[ws[j]] # "waiting"
    ELSE 0

\* Semaphore._wake_up_next() applied to counter v and positions p: the first
\* pending waiter is given the permit (the counter is decremented for it)
WakeValue(v, ws, p) == IF FirstWaiting(ws, p) = 0 THEN v ELSE v - 1
\* (variant: the waiter's future is never set)
WakePc_NoWake(ws, p) == p

WakePc(ws, p) ==
    IF FirstWaiting(ws, p) = 0 THEN p
    ELSE [p EXCEPT ![ws[FirstWaiting(ws, p)]] = "woken"]

\* Semaphore.release(): self._value += 1; self._wake_up_next()
ReleaseValue(v, ws, p) == WakeValue(v + 1, ws, p)

RemoveWaiter(ws, w) == SelectSeq(ws, LAMBDA x : x # w)

\* ------------------------------------------------------------ percentile
\* sorted(latencies)
SortLat(lat) == SortSeq(lat, LAMBDA a, b : a < b)

\* k = (len - 1) * (p / 100), in hundredths
Rank100(n, p) == (n - 1) * p

\* (variant: the list is used in arrival order)
Percentile_Unsorted(lat, p) ==
    IF lat = <<>> THEN 0
    ELSE LET n == Len(lat)
             k == Rank100(n, p)
             f == k \div 100
             c == IF f + 1 < n - 1 THEN f + 1 ELSE n - 1
         IN  IF f = c THEN 100 * lat[f + 1]
             ELSE lat[f + 1] * (100 * c - k) + lat[c + 1] * (k - 100 * f)

\* (variant: the two interpolation weights are exchanged)
Percentile_SwappedWeights(lat, p) ==
    IF lat = <<>> THEN 0
    ELSE LET s == SortLat(lat)
             n == Len(s)
             k == Rank100(n, p)
             f == k \div 100
             c == IF f + 1 < n - 1 THEN f + 1 ELSE n - 1
         IN  IF f = c THEN 100 * s[f + 1]
             ELSE s[f + 1] * (k - 100 * f) + s[c + 1] * (100 * c - k)

\* percentile(latencies, p) for an integer p, in hundredths of the unit of
\* the latencies (sequences are indexed from 1, Python lists from 0)
Percentile(lat, p) ==
    IF lat = <<>> THEN 0
    ELSE LET s == SortLat(lat)
             n == Len(s)
             k == Rank100(n, p)
             f == k \div 100
             c == IF f + 1 < n - 1 THEN f + 1 ELSE n - 1
         IN  IF f = c THEN 100 * s[f + 1]
             ELSE s[f + 1] * (100 * c - k) + s[c + 1] * (k - 100 * f)

\* latencies = [r[0] for r in results], in milliseconds
LatenciesMs(rs) == [i \in 1..Len(rs) |-> rs[i][1] * TickMs]

\* min(latencies) / max(latencies), 0.0 for an empty list
MinLat(lat) == IF lat = <<>> THEN 0 ELSE CHOOSE x \in {lat[i] : i \in 1..Len(lat)} :
                                        \A i \in 1..Len(lat) : x <= lat[i]
MaxLat(lat) == IF lat = <<>> THEN 0 ELSE CHOOSE x \in {lat[i] : i \in 1..Len(lat)} :
                                        \A i \in 1..Len(lat) : x >= lat[i]

\* the "latency_ms" entry of the metrics: min and max in milliseconds, the
\* percentiles in hundredths of a millisecond, the mean as sum and count
LatencyStats(rs) ==
    [sum |-> SumLat(rs) * TickMs, count |-> Len(rs),
     min |-> MinLat(LatenciesMs(rs)), max |-> MaxLat(LatenciesMs(rs)),
     p50 |-> Percentile(LatenciesMs(rs), 50),
     p90 |-> Percentile(LatenciesMs(rs), 90),
     p95 |-> Percentile(LatenciesMs(rs), 95),
     p99 |-> Percentile(LatenciesMs(rs), 99)]

\* ------------------------------------------------------------ aggregation
\* (variant: the histogram is built from every outcome, not only http_results)
StatusDist_AllOutcomes(rs) ==
    [s \in {rs[i][2] : i \in 1..Len(rs)} |->
        Cardinality({i \in 1..Len(rs) : rs[i][2] = s})]

\* Counter(status_codes): status code -> number of occurrences
StatusDist(rs) ==
    [s \in {rs[i][2] : i \in {j \in 1..Len(rs) : IsHttp(rs[j])}} |->
        Cardinality({i \in 1..Len(rs) : rs[i][2] = s})]

\* (variant: failure_count leaves out the transport errors)
Metrics_FailedHttpOnly(rs) ==
    [total_requests |-> Len(rs),
     successful_requests |-> Successes(rs),
     failed_requests |-> HttpFailures(rs),
     transport_errors |-> TransportErrors(rs),
     latency_ms |-> LatencyStats(rs),
     status_codes |-> StatusDist(rs)]

\* the metrics dict built by run_load_test (total_time_seconds and
\* requests_per_second, which depend on the wall clock alone, are left out)
Metrics(rs) ==
    [total_requests |-> Len(rs),
     successful_requests |-> Successes(rs),
     failed_requests |-> HttpFailures(rs) + TransportErrors(rs),
     transport_errors |-> TransportErrors(rs),
     latency_ms |-> LatencyStats(rs),
     status_codes |-> StatusDist(rs)]

\* ------------------------------------------------- tasks.py: the callback
\* a dict with int keys as json.dumps writes it: the keys become strings
TextKeys(h) ==
    [k \in {ToString(x) : x \in DOMAIN h} |->
        h[CHOOSE x \in DOMAIN h : ToString(x) = k]]

\* json.dumps(result): the status_codes histogram gets string keys
JsonObject(res) ==
    [summary |-> [res.summary EXCEPT !.status_codes = TextKeys(@)],
     timeseries |-> res.timeseries]

\* metrics.setdefault("progress", {}); metrics["progress"].update(progress)
MergeProgress(rec, ev) ==
    [k \in DOMAIN rec \cup {"progress"} |->
        IF k = "progress" THEN ev ELSE rec[k]]

\* a message published on the run's channel reaches a subscribed handler
Receive(o, msg) ==
    IF o.subscribed THEN [o EXCEPT !.inbox = Append(@, msg)] ELSE o

\* {"type": "progress", "run_id": run_id, **progress}
ProgressMessage(ev) ==
    [k \in DOMAIN ev \cup {"type"} |-> IF k = "type" THEN "progress" ELSE ev[k]]

\* _cb(progress): publish the event, then merge it into the row and commit.
\* A callback that fails does so in publish() or in the database part.
JobCallback(ev, ok) ==
    \E sent \in (IF ok THEN {TRUE} ELSE BOOLEAN) :
        LET msg == ProgressMessage(ev)
        IN  /\ channel' = IF sent THEN Append(channel, msg) ELSE channel
            /\ obs' = IF sent THEN Receive(obs, msg) ELSE obs
            /\ record' = IF ok THEN MergeProgress(record, ev) ELSE record

\* -------------------------------------------------------------- worker()
\* (variant: the except branch does not set is_transport_error)
Outcome_FlagNotSet(elapsed, resp) ==
    IF resp = Exc THEN <<elapsed, None, FALSE>> ELSE <<elapsed, resp, FALSE>>

\* the tuple appended to results: a response gives (elapsed, status, False),
\* an exception gives (elapsed, None, True)
Outcome(elapsed, resp) ==
    IF resp = Exc THEN <<elapsed, None, TRUE>> ELSE <<elapsed, resp, FALSE>>

\* (variant: no handler around client.request)
WorkerCatches_Nothing(resp) == FALSE

\* `except Exception` around client.request catches every transport failure
WorkerCatches(resp) == TRUE

\* (variant: the block after the request is outside `async with semaphore`)
HoldsDuringCallback_Dedented == FALSE

\* the sampling block and the callback await are inside `async with semaphore`
HoldsDuringCallback == TRUE

\* (variant: a point is appended at every completion)
Sample_Unthrottled(ts, t, c, rs) ==
    Append(ts, [timestamp |-> t, completed |-> c,
                avg_latency_ms |-> AvgLatencySoFar(rs),
                errors |-> HttpErrorsSoFar(rs)])

\* the progress sampler: append a point if the buffer is empty or the last
\* point is at least 0.5 s old
Sample(ts, t, c, rs) ==
    IF ts = <<>> \/ (t - ts[Len(ts)].timestamp) >= SampleInterval
    THEN Append(ts, [timestamp |-> t, completed |-> c,
                     avg_latency_ms |-> AvgLatencySoFar(rs),
                     errors |-> HttpErrorsSoFar(rs)])
    ELSE ts

\* (variant: "total" is taken from the outcomes so far)
ProgressEvent_TotalSoFar(c, total, rs) ==
    [completed |-> c, total |-> Len(rs),
     avg_latency_ms |-> AvgLatencySoFar(rs),
     errors |-> HttpErrorsSoFar(rs)]

\* the dict passed to progress_callback (its wall-clock "timestamp" entry,
\* which nothing reads back, is left out)
ProgressEvent(c, total, rs) ==
    [completed |-> c, total |-> total,
     avg_latency_ms |-> AvgLatencySoFar(rs),
     errors |-> HttpErrorsSoFar(rs)]

\* (variant: range(1, total_requests))
NumTasks_OffByOne(c) == IF c.total_requests > 1 THEN c.total_requests - 1 ELSE 0

\* number of worker tasks run_load_test creates: range(total_requests)
NumTasks(c) == IF c.total_requests > 0 THEN c.total_requests ELSE 0

\* (variant: the request is sent a second time)
BeginRequest_Twice(w) ==
    /\ start' = [start EXCEPT ![w] = now]
    /\ calls' = calls + 2
    /\ seqNo' = [seqNo EXCEPT ![w] = calls + 2]

\* (variant: the timer is the one started when the run began)
BeginRequest_RunTimer(w) ==
    /\ start' = start
    /\ calls' = calls + 1
    /\ seqNo' = [seqNo EXCEPT ![w] = calls + 1]

\* semaphore.acquire() returned: start the timer and call client.request
BeginRequest(w) ==
    /\ start' = [start EXCEPT ![w] = now]
    /\ calls' = calls + 1
    /\ seqNo' = [seqNo EXCEPT ![w] = calls + 1]

\* first step of a worker task: `async with semaphore` either takes a permit
\* at once or queues the task.  Tasks start in creation order.
StartWorker(w) ==
    /\ pc[w] = "new"
    /\ \A v \in 1..(w - 1) : pc[v] # "new"
    /\ IF ~Locked
       THEN /\ value' = value - 1
            /\ holding' = holding \cup {w}
            /\ pc' = [pc EXCEPT ![w] = "inflight"]
            /\ BeginRequest(w)
            /\ UNCHANGED waiters
       ELSE /\ waiters' = Append(waiters, w)
            /\ pc' = [pc EXCEPT ![w] = "waiting"]
            /\ UNCHANGED <<value, holding, start, calls, seqNo>>
    /\ UNCHANGED <<cfg, runState, results, completed, timeseries, events,
                   clientClosed, result, now>>
    /\ UNCHANGED outside

\* a queued task whose future was set resumes inside acquire(): it leaves the
\* queue, passes a spare permit on, then starts the timer and the request
ResumeWorker(w) ==
    /\ pc[w] = "woken"
    /\ LET ws == RemoveWaiter(waiters, w)
           p == [pc EXCEPT ![w] = "inflight"]
       IN  /\ waiters' = ws
           /\ IF value > 0
              THEN /\ value' = WakeValue(value, ws, p)
                   /\ pc' = WakePc(ws, p)
                   /\ holding' = IF FirstWaiting(ws, p) = 0 THEN holding
                                 ELSE holding \cup {ws[FirstWaiting(ws, p)]}
              ELSE /\ value' = value
                   /\ pc' = p
                   /\ holding' = holding
    /\ BeginRequest(w)
    /\ UNCHANGED <<cfg, runState, results, completed, timeseries, events,
                   clientClosed, result, now>>
    /\ UNCHANGED outside

\* leaving `async with semaphore` (normally or by an exception): release()
\* and the end of the task, which finishes in position `final`
Leave(w, p, final) ==
    LET q == [p EXCEPT ![w] = final]
    IN  /\ value' = ReleaseValue(value, waiters, q)
        /\ pc' = WakePc(waiters, q)
        /\ holding' = IF FirstWaiting(waiters, q) = 0 THEN holding \ {w}
                      ELSE (holding \ {w}) \cup {waiters[FirstWaiting(waiters, q)]}

\* client.request returned or raised: record the outcome, update the counter,
\* sample, build the progress event and call the callback.  `oks` is the set
\* of ways a callback that does not suspend may end (TRUE: it returns).
Respond(w, oks) ==
    /\ pc[w] = "inflight"
    /\ \E resp \in Responses :
         /\ (clientClosed \/ ~UrlWellFormed(cfg.url)) => resp = Exc
         /\ IF resp = Exc /\ ~WorkerCatches(resp)
            THEN /\ Leave(w, pc, "failed")
                 /\ UNCHANGED <<results, completed, timeseries, events>>
            ELSE LET rs == Append(results, Outcome(now - start[w], resp))
                     c == completed + 1
                 IN  /\ results' = rs
                     /\ completed' = c
                     /\ IF cfg.callback
                        THEN /\ timeseries' = Sample(timeseries, now, c, rs)
                             /\ events' = Append(events,
                                    ProgressEvent(c, cfg.total_requests, rs))
                             /\ IF CallbackSuspends(cfg.entry)
                                THEN IF HoldsDuringCallback
                                     THEN /\ pc' = [pc EXCEPT ![w] = "callback"]
                                          /\ UNCHANGED <<value, holding>>
                                     ELSE Leave(w, pc, "callback")
                                ELSE \E ok \in oks :
                                        Leave(w, pc, IF ok THEN "done" ELSE "failed")
                        ELSE /\ Leave(w, pc, "done")
                             /\ UNCHANGED <<timeseries, events>>
    /\ start' = [start EXCEPT ![w] = 0]
    /\ seqNo' = [seqNo EXCEPT ![w] = 0]
    /\ IF cfg.entry = "job" /\ events' # events
       THEN JobCallback(events'[Len(events')], pc'[w] = "done")
       ELSE UNCHANGED <<record, channel, obs>>
    /\ UNCHANGED <<cfg, runState, waiters, calls, clientClosed, result, now, job>>

\* the awaited progress_callback returns: the worker leaves the semaphore
CallbackReturns(w) ==
    /\ pc[w] = "callback"
    /\ IF HoldsDuringCallback
       THEN Leave(w, pc, "done")
       ELSE /\ pc' = [pc EXCEPT ![w] = "done"]
            /\ UNCHANGED <<value, holding>>
    /\ UNCHANGED <<cfg, runState, waiters, start, results, completed, timeseries,
                   events, calls, clientClosed, result, now, seqNo>>
    /\ UNCHANGED outside

\* the awaited progress_callback raises: the exception leaves worker()
\* through `async with semaphore` and ends the task
CallbackThrows(w) ==
    /\ pc[w] = "callback"
    /\ IF HoldsDuringCallback
       THEN Leave(w, pc, "failed")
       ELSE /\ pc' = [pc EXCEPT ![w] = "failed"]
            /\ UNCHANGED <<value, holding>>
    /\ UNCHANGED <<cfg, runState, waiters, start, results, completed, timeseries,
                   events, calls, clientClosed, result, now, seqNo>>
    /\ UNCHANGED outside

\* ------------------------------------------------------- run_load_test()
\* run_load_test up to `await asyncio.gather(*tasks)`: Semaphore(concurrency)
\* raises ValueError for a negative value, otherwise the tasks are created
BeginRun ==
    IF cfg.concurrency < 0
    THEN /\ runState' = "Raised"
         /\ UNCHANGED <<value, pc>>
    ELSE /\ runState' = "Running"
         /\ value' = cfg.concurrency
         /\ pc' = [w \in Workers |-> IF w <= NumTasks(cfg) THEN "new" ELSE "absent"]

\* gather() resolves when every task has finished without an exception;
\* run_load_test then aggregates and returns
GatherReturns ==
    /\ runState = "Running"
    /\ \A w \in 1..NumTasks(cfg) : pc[w] = "done"
    /\ runState' = "Completed"
    /\ clientClosed' = TRUE
    /\ result' = [set |-> TRUE, summary |-> Metrics(results),
                  timeseries |-> timeseries]
    /\ UNCHANGED <<cfg, value, waiters, pc, start, results, completed,
                   timeseries, events, calls, holding, now, seqNo>>
    /\ UNCHANGED outside

\* gather() propagates the first exception of a task: run_load_test raises,
\* the client context exits; under asyncio.run the pending tasks are
\* cancelled, otherwise they keep running on the caller's loop
GatherRaises ==
    /\ runState = "Running"
    /\ \E w \in Workers : pc[w] = "failed"
    /\ runState' = "Raised"
    /\ clientClosed' = TRUE
    /\ IF UnderAsyncioRun(cfg.entry)
       THEN /\ pc' = [w \in Workers |->
                        IF pc[w] \in {"new", "waiting", "woken", "inflight", "callback"}
                        THEN "cancelled" ELSE pc[w]]
            /\ value' = cfg.concurrency
            /\ waiters' = <<>>
            /\ holding' = {}
       ELSE UNCHANGED <<pc, value, waiters, holding>>
    /\ UNCHANGED <<cfg, start, results, completed, timeseries, events, calls,
                   result, now, seqNo>>
    /\ UNCHANGED outside

\* ------------------------------------------------------------ entry paths
\* POST /run-test: the request body is validated by LoadTestRequest before
\* the handler runs; a valid request is enqueued
RunTest ==
    /\ runState = "Created"
    /\ cfg.entry = "job"
    /\ runState' = IF RequestModelValid(cfg) THEN "Queued" ELSE "Rejected"
    /\ record' = IF RequestModelValid(cfg) THEN [status |-> "queued"] ELSE record
    /\ UNCHANGED <<cfg, value, waiters, pc, start, results, completed,
                   timeseries, events, calls, clientClosed, result, holding, now,
                   seqNo, channel, job, obs>>

\* the queue worker runs run_test_job, which calls run_load_test
RunTestJob ==
    /\ runState = "Queued"
    /\ BeginRun
    /\ UNCHANGED <<cfg, waiters, start, results, completed, timeseries, events,
                   calls, clientClosed, result, holding, now, seqNo>>
    /\ UNCHANGED outside

\* /ws/live-test, the CLI's main() and a direct call pass the configuration
\* to run_load_test as received
CallDirectly ==
    /\ runState = "Created"
    /\ cfg.entry \in {"ws", "cli", "direct"}
    /\ BeginRun
    /\ UNCHANGED <<cfg, waiters, start, results, completed, timeseries, events,
                   calls, clientClosed, result, holding, now, seqNo>>
    /\ UNCHANGED outside

\* time passes (the clock is read only by running workers)
Tick ==
    /\ runState = "Running"
    /\ \E w \in Workers : pc[w] \in {"new", "waiting", "woken", "inflight", "callback"}
    /\ now < MaxTime
    /\ now' = now + 1
    /\ UNCHANGED <<cfg, runState, value, waiters, pc, start, results, completed,
                   timeseries, events, calls, clientClosed, result, holding, seqNo>>
    /\ UNCHANGED outside

Next ==
    \/ RunTest
    \/ RunTestJob
    \/ CallDirectly
    \/ \E w \in Workers : StartWorker(w)
    \/ \E w \in Workers : ResumeWorker(w)
    \/ \E w \in Workers : Respond(w, BOOLEAN)
    \/ \E w \in Workers : CallbackReturns(w)
    \/ \E w \in Workers : CallbackThrows(w)
    \/ GatherReturns
    \/ GatherRaises
    \/ Tick

Spec == Init /\ [][Next]_vars

\* The run under the assumption that every callback invocation returns
AssumedNext ==
    \/ RunTest
    \/ RunTestJob
    \/ CallDirectly
    \/ \E w \in Workers : StartWorker(w)
    \/ \E w \in Workers : ResumeWorker(w)
    \/ \E w \in Workers : Respond(w, {TRUE})
    \/ \E w \in Workers : CallbackReturns(w)
    \/ GatherReturns
    \/ Tick

\* the event loop runs every ready task, every transport call returns or
\* times out, every callback returns, and the queue worker takes the job
LiveSpec ==
    /\ Init
    /\ [][AssumedNext]_vars
    /\ \A w \in Workers :
          WF_vars(StartWorker(w) \/ ResumeWorker(w) \/ Respond(w, {TRUE})
                  \/ CallbackReturns(w))
    /\ WF_vars(RunTest \/ RunTestJob \/ CallDirectly \/ GatherReturns)

\* ------------------------------------ the aggregation and percentile() alone
\* a run that has not started, given outcome lists directly
FnInit ==
    /\ Init
    /\ cfg = [url |-> "http://t/", method |-> "GET", total_requests |-> 1,
              concurrency |-> 1, callback |-> FALSE, entry |-> "direct"]

\* one more tuple in the results list
AppendOutcome(lat, resp, maxLen) ==
    /\ runState = "Created"
    /\ ~result.set
    /\ Len(results) < maxLen
    /\ results' = Append(results, Outcome(lat, resp))
    /\ UNCHANGED <<cfg, runState, value, waiters, pc, start, completed,
                   timeseries, events, calls, clientClosed, result, holding, now,
                   seqNo>>
    /\ UNCHANGED outside

\* r[0] for r in results
RawLatencies(rs) == [i \in 1..Len(rs) |-> rs[i][1]]

\* the tail of run_load_test applied to the list: the metrics, and
\* percentile() of the latencies as given, for every rank of Ranks
Aggregate ==
    /\ runState = "Created"
    /\ ~result.set
    /\ result' = [set |-> TRUE, summary |-> Metrics(results),
                  timeseries |-> timeseries,
                  percentiles |-> [p \in Ranks |->
                                     Percentile(RawLatencies(results), p)]]
    /\ UNCHANGED <<cfg, runState, value, waiters, pc, start, results, completed,
                   timeseries, events, calls, clientClosed, holding, now, seqNo>>
    /\ UNCHANGED outside

AggNext ==
    \/ \E resp \in Responses : AppendOutcome(1, resp, MaxOutcomes)
    \/ Aggregate

AggSpec == FnInit /\ [][AggNext]_vars

PctNext ==
    \/ \E lat \in LatValues : AppendOutcome(lat, 200, MaxSamples)
    \/ Aggregate

PctSpec == FnInit /\ [][PctNext]_vars

\* ------------------------------------------- run_test_job after the run
\* (variant: publish(run_id, done) comes before the database block)
CommitBeforeDone_PublishFirst == FALSE

\* run_test_job writes and commits the result, then publishes "done"
CommitBeforeDone == TRUE

\* tr.metrics_json = json.dumps(result); db.commit()
JobCommit ==
    /\ cfg.entry = "job"
    /\ runState = "Completed"
    /\ ~job.committed
    /\ CommitBeforeDone \/ job.doneSent
    /\ record' = JsonObject(result)
    /\ job' = [job EXCEPT !.committed = TRUE]
    /\ UNCHANGED <<cfg, runState, value, waiters, pc, start, results, completed,
                   timeseries, events, calls, clientClosed, result, holding, now,
                   seqNo, channel, obs>>

\* the payload of the "done" message as json.dumps writes it
DoneMessage == [type |-> "done", metrics |-> JsonObject(result)]

\* publish(run_id, {"type": "done", "run_id": run_id, "metrics": result})
JobPublishDone ==
    /\ cfg.entry = "job"
    /\ runState = "Completed"
    /\ ~job.doneSent
    /\ CommitBeforeDone => job.committed
    /\ channel' = Append(channel, DoneMessage)
    /\ obs' = Receive(obs, DoneMessage)
    /\ job' = [job EXCEPT !.doneSent = TRUE]
    /\ UNCHANGED <<cfg, runState, value, waiters, pc, start, results, completed,
                   timeseries, events, calls, clientClosed, result, holding, now,
                   seqNo, record>>

\* ------------------------------------------ ws_run_updates (/ws/run/{id})
\* (variant: the snapshot is read before pubsub.subscribe)
SubscribeFirst_SnapshotFirst == FALSE

\* the handler subscribes to the channel, then reads the database snapshot
SubscribeFirst == TRUE

\* pubsub.subscribe(channel)
WsRunSubscribe ==
    /\ obs.pc = (IF SubscribeFirst THEN "none" ELSE "between")
    /\ obs' = [obs EXCEPT !.subscribed = TRUE,
                          !.pc = IF SubscribeFirst THEN "between" ELSE "listening"]
    /\ UNCHANGED <<cfg, runState, value, waiters, pc, start, results, completed,
                   timeseries, events, calls, clientClosed, result, holding, now,
                   seqNo, record, channel, job>>

\* the row is read and, when it exists, sent as {"type": "snapshot", ...}
WsRunSnapshot ==
    /\ obs.pc = (IF SubscribeFirst THEN "between" ELSE "none")
    /\ obs' = [obs EXCEPT !.snapshot = record,
                          !.pc = IF SubscribeFirst THEN "listening" ELSE "between"]
    /\ UNCHANGED <<cfg, runState, value, waiters, pc, start, results, completed,
                   timeseries, events, calls, clientClosed, result, holding, now,
                   seqNo, record, channel, job>>

\* one turn of the loop with a message: get_message, then ws.send_text
WsRunForward ==
    /\ obs.pc = "listening"
    /\ obs.inbox # <<>>
    /\ obs' = [obs EXCEPT !.delivered = Append(@, Head(obs.inbox)),
                          !.inbox = Tail(@)]
    /\ UNCHANGED <<cfg, runState, value, waiters, pc, start, results, completed,
                   timeseries, events, calls, clientClosed, result, holding, now,
                   seqNo, record, channel, job>>

\* the background job of one run and one client of /ws/run/{run_id}; the
\* clock stands still, the order of their steps does not depend on it
JobInit == Init /\ cfg.entry = "job"

JobNext ==
    \/ RunTest
    \/ RunTestJob
    \/ \E w \in Workers : StartWorker(w)
    \/ \E w \in Workers : ResumeWorker(w)
    \/ \E w \in Workers : Respond(w, BOOLEAN)
    \/ GatherReturns
    \/ GatherRaises
    \/ JobCommit
    \/ JobPublishDone
    \/ WsRunSubscribe
    \/ WsRunSnapshot
    \/ WsRunForward

\* the handler's loop keeps polling, so a pending message is forwarded
JobSpec == JobInit /\ [][JobNext]_vars /\ WF_vars(WsRunForward)

\* ------------------------------------------- a deterministic transport
\* the time every call of the transport takes, in ticks
FixedLatency == 1

\* the reply the transport gives to its i-th call
FixedReply(i) == <<200, Exc, 500>>[((i - 1) % 3) + 1]

\* client.request under this transport: the worker resumes once the fixed
\* latency has passed, with the reply of its call
DetRespond(w) ==
    /\ now - start[w] >= FixedLatency
    /\ Respond(w, BOOLEAN)
    /\ results' = Append(results, Outcome(now - start[w], FixedReply(seqNo[w])))

DetInit == Init /\ UrlWellFormed(cfg.url)

DetNext ==
    \/ RunTest
    \/ RunTestJob
    \/ CallDirectly
    \/ \E w \in Workers : StartWorker(w)
    \/ \E w \in Workers : ResumeWorker(w)
    \/ \E w \in Workers : DetRespond(w)
    \/ \E w \in Workers : CallbackReturns(w)
    \/ \E w \in Workers : CallbackThrows(w)
    \/ GatherReturns
    \/ GatherRaises
    \/ Tick

DetSpec == DetInit /\ [][DetNext]_vars

TypeOK ==
    /\ runState \in {"Created", "Rejected", "Queued", "Running", "Completed", "Raised"}
    /\ value \in 0..MaxConcurrency
    /\ completed \in 0..MaxRequests
    /\ now \in 0..MaxTime

\* ------------------------------------------------------------------ claims
\* the configuration the specification calls valid
ValidConfig ==
    /\ cfg.total_requests >= 1
    /\ cfg.concurrency >= 1
    /\ cfg.method \in AllowedMethods
    /\ UrlWellFormed(cfg.url)

Finished(w) == pc[w] \in {"callback", "done", "failed"}

\* C1: for a valid configuration with total_requests = n, the completed
\* counter always equals the number of outcomes appended so far and never
\* exceeds n; when run_load_test has returned, the outcome collection has
\* exactly n entries, completed = n and summary.total_requests = n.
C1_CompletedCountsOutcomes ==
    ValidConfig =>
        /\ completed = Len(results)
        /\ completed <= cfg.total_requests
        /\ runState = "Completed" =>
              /\ Len(results) = cfg.total_requests
              /\ completed = cfg.total_requests
              /\ result.summary.total_requests = cfg.total_requests

C1_Witness ==
    /\ ValidConfig
    /\ runState = "Completed"
    /\ cfg.total_requests >= 2
    /\ completed = cfg.total_requests
    /\ cfg.concurrency = 1

\* C2: in every state the number of workers that hold a permit is at most
\* `concurrency`, and so is the number of transport calls in flight.
C2_PermitBound ==
    LET limit == IF cfg.concurrency > 0 THEN cfg.concurrency ELSE 0
        inflight == {w \in Workers : pc[w] = "inflight"}
    IN  /\ Cardinality(holding) <= limit
        /\ Cardinality(inflight) <= limit
        /\ inflight \subseteq holding

C2_Witness ==
    /\ cfg.concurrency >= 1
    /\ Cardinality({w \in Workers : pc[w] = "inflight"}) = cfg.concurrency
    /\ \E w \in Workers : pc[w] = "waiting"

\* C3: a progress callback that throws does not abort the run: for a valid
\* configuration run_load_test never raises and no request is cancelled
\* before it was dispatched and recorded.
C3_CallbackFailureIsolated ==
    ValidConfig =>
        /\ runState # "Raised"
        /\ \A w \in Workers : pc[w] # "cancelled"

\* C4: an invalid configuration is refused before dispatch on every entry
\* path: the run never starts and no transport request is issued.
C4_InvalidConfigNotDispatched ==
    ~ValidConfig =>
        /\ calls = 0
        /\ runState \notin {"Running", "Completed"}

\* C5: a per-request failure (transport error or status >= 400) is recorded
\* as an outcome and never aborts the run: every worker that has left its
\* transport call has appended an outcome, a run without a callback never
\* raises once dispatch has started, and a completed run has a summary over
\* all n outcomes whatever the number of failed requests.
C5_RequestFailuresNeverAbort ==
    /\ Cardinality({w \in Workers : Finished(w)}) <= Len(results)
    /\ (~cfg.callback /\ cfg.concurrency >= 0) => runState # "Raised"
    /\ runState = "Completed" =>
          /\ result.summary.total_requests = NumTasks(cfg)
          /\ result.summary.successful_requests + result.summary.failed_requests
                = NumTasks(cfg)

C5_Witness ==
    /\ runState = "Completed"
    /\ cfg.total_requests >= 2
    /\ result.summary.failed_requests = cfg.total_requests
    /\ result.summary.transport_errors = 1

\* C6: for every valid configuration (concurrency > total_requests
\* included), when every transport call returns and every callback returns,
\* the run eventually reaches Completed.
C6_EventuallyCompleted == ValidConfig => <>(runState = "Completed")

C6_Witness ==
    /\ ValidConfig
    /\ runState = "Completed"
    /\ cfg.concurrency > cfg.total_requests
    /\ holding = {}

\* C7 (as stated): the permit is not held while the progress callback of
\* the request executes.
C7_PermitFreeDuringCallback ==
    \A w \in Workers : pc[w] = "callback" => w \notin holding

\* C7 (amended): a worker holds a permit from before it starts timing and
\* issuing until its awaited progress callback has returned or raised; a
\* worker that has not acquired yet or has ended holds none.
C7_PermitHeldThroughCallback ==
    \A w \in Workers :
        /\ pc[w] \in {"woken", "inflight", "callback"} => w \in holding
        /\ pc[w] \in {"absent", "new", "waiting", "done", "failed", "cancelled"}
              => w \notin holding

C7_Witness ==
    \E w, v \in Workers :
        /\ pc[w] = "callback"
        /\ w \in holding
        /\ pc[v] = "waiting"
        /\ value = 0

\* C8: with a callback supplied, the callback is invoked once per completed
\* request: the i-th event has completed = i and total = n, there are as
\* many events as completions, and a completed run has produced n events.
C8_OneEventPerCompletion ==
    cfg.callback =>
        /\ Len(events) = completed
        /\ \A i \in 1..Len(events) :
              /\ events[i].completed = i
              /\ events[i].total = cfg.total_requests
        /\ runState = "Completed" => Len(events) = NumTasks(cfg)

C8_Witness ==
    /\ cfg.callback
    /\ runState = "Completed"
    /\ cfg.total_requests >= 2
    /\ Len(events) = cfg.total_requests
    /\ events[Len(events)].completed = cfg.total_requests

\* C9: the event built at the k-th completion is computed from exactly the
\* first k outcomes: its average latency is their mean rounded to two
\* decimals and its error count is the number of them with a status code
\* >= 400, transport errors excluded.
C9_EventFromConsistentSnapshot ==
    \A k \in 1..Len(events) :
        LET prefix == SubSeq(results, 1, k)
            a == events[k].avg_latency_ms
            d == a * k - 100 * TickMs * SumLat(prefix)
        IN  /\ k <= Len(results)
            /\ 2 * d <= k /\ 2 * d >= -k
            /\ events[k].errors =
                  Cardinality({j \in 1..k : ~results[j][3] /\ results[j][2] >= 400})

C9_Witness ==
    /\ Len(events) >= 2
    /\ \E w, v \in Workers : w # v /\ pc[w] = "callback" /\ pc[v] = "callback"
    /\ results[1][3]
    /\ results[2][2] = 500
    /\ events[2].errors = 1
    /\ results[1][1] # results[2][1]

\* C10: every completed run with total_requests >= 1 returns a non-empty
\* timeseries whose first point has completed = 1, whether or not a
\* progress callback is supplied.
C10_FirstPointAlwaysRecorded ==
    (runState = "Completed" /\ cfg.total_requests >= 1) =>
        /\ result.timeseries # <<>>
        /\ result.timeseries[1].completed = 1

\* C11: any two consecutive points of the timeseries buffer are at least
\* 0.5 s apart and their `completed` values strictly increase; a completion
\* less than 0.5 s after the last point leaves the buffer unchanged.
C11_SamplesSpaced ==
    /\ [](\A i \in 1..(Len(timeseries) - 1) :
            /\ timeseries[i + 1].timestamp - timeseries[i].timestamp >= SampleInterval
            /\ timeseries[i + 1].completed > timeseries[i].completed)
    /\ [][(/\ timeseries # <<>>
           /\ now - timeseries[Len(timeseries)].timestamp < SampleInterval)
            => timeseries' = timeseries]_vars

C11_Witness ==
    /\ Len(timeseries) = 2
    /\ timeseries[2].timestamp - timeseries[1].timestamp = SampleInterval
    /\ timeseries[2].completed = 2

\* the sum of the values of a histogram
RECURSIVE SumOfValues(_)
SumOfValues(h) ==
    IF DOMAIN h = {} THEN 0
    ELSE LET k == CHOOSE x \in DOMAIN h : TRUE
         IN  h[k] + SumOfValues([x \in DOMAIN h \ {k} |-> h[x]])

\* C12: for every completed run the values of the status_codes histogram
\* sum to successful + (failed - transport_errors), and transport errors
\* contribute no entry.
C12_HistogramSum ==
    runState = "Completed" =>
        /\ SumOfValues(result.summary.status_codes)
              = result.summary.successful_requests
                + (result.summary.failed_requests - result.summary.transport_errors)
        /\ DOMAIN result.summary.status_codes \subseteq StatusCodes

C12_Witness ==
    /\ runState = "Completed"
    /\ result.summary.transport_errors = 1
    /\ DOMAIN result.summary.status_codes = {500}
    /\ result.summary.total_requests = 2

\* C14: every recorded outcome has either a status code and no transport
\* error flag, or the flag and no status code; never both, never neither.
C14_StatusXorTransportError ==
    \A i \in 1..Len(results) :
        LET hasStatus == results[i][2] \in StatusCodes
            absent == results[i][2] = None
        IN  /\ hasStatus # absent
            /\ hasStatus => ~results[i][3]
            /\ absent => results[i][3]

C14_Witness ==
    /\ Len(results) = 2
    /\ results[1] = <<1, None, TRUE>>
    /\ results[2][2] = 500 /\ ~results[2][3]

\* C15: no request is retried: every worker calls the transport once, so
\* there are never more calls than requests nor more outcomes than calls,
\* and a completed run has made exactly total_requests calls and appended
\* one outcome per call.
C15_OneCallPerRequest ==
    /\ (\A w \in Workers : pc[w] # "cancelled") =>
          calls = Cardinality({w \in Workers :
                                pc[w] \in {"inflight", "callback", "done", "failed"}})
    /\ calls <= NumTasks(cfg)
    /\ Len(results) <= calls
    /\ runState = "Completed" =>
          /\ calls = NumTasks(cfg)
          /\ Len(results) = calls

C15_Witness ==
    /\ runState = "Completed"
    /\ calls = 2
    /\ results[1][3]
    /\ results[2][2] = 200

\* C18: the latency timer of a request is started in the step in which the
\* request, already holding a permit, is issued, and the recorded latency is
\* the time from that start to the return or failure of the transport call:
\* time spent waiting for a permit is not part of it, and a latency is
\* recorded for transport errors as for responses.
C18_TimerExcludesWaiting ==
    [][\A w \in Workers :
         /\ (pc[w] # "inflight" /\ pc'[w] = "inflight") =>
               (start'[w] = now' /\ w \in holding')
         /\ (pc[w] = "inflight" /\ pc'[w] = "inflight") => start'[w] = start[w]
         /\ (pc[w] = "inflight" /\ pc'[w] \in {"callback", "done", "failed"}) =>
               /\ Len(results') = Len(results) + 1
               /\ results'[Len(results')][1] = now - start[w]]_vars

C18_Witness ==
    /\ cfg.concurrency = 1
    /\ Len(results) = 2
    /\ results[1] = <<1, None, TRUE>>
    /\ results[2][1] = 1
    /\ now = 2

\* number of outcomes of the list with the given status (None: no status)
WithStatus(rs, st) == Cardinality({i \in 1..Len(rs) : rs[i][2] = st})

\* C13: the summary partitions the outcomes: successful is the number of
\* outcomes with a status below 400, failed the number with a status of 400
\* or more plus the transport errors, and the two add up to the total; five
\* 200s, three 500s and two transport errors give successful = 5,
\* failed = 5, transport_errors = 2 and status_codes = {200: 5, 500: 3}.
C13_SummaryPartitions ==
    result.set =>
        LET m == result.summary
            ok == WithStatus(results, 200)
            ko == WithStatus(results, 500)
            te == WithStatus(results, None)
        IN  /\ m.successful_requests = ok
            /\ m.failed_requests = ko + te
            /\ m.transport_errors = te
            /\ m.successful_requests + m.failed_requests = Len(results)
            /\ m.total_requests = Len(results)
            /\ (ok = 5 /\ ko = 3 /\ te = 2) =>
                  /\ m.successful_requests = 5
                  /\ m.failed_requests = 5
                  /\ m.transport_errors = 2
                  /\ m.status_codes = (200 :> 5) @@ (500 :> 3)

C13_Witness ==
    /\ result.set
    /\ WithStatus(results, 200) = 5
    /\ WithStatus(results, 500) = 3
    /\ WithStatus(results, None) = 2
    /\ results[1][3]
    /\ result.summary.failed_requests = 5

\* the element at index j (from 0) of the ascending arrangement of lat
OrderStat(lat, j) ==
    CHOOSE v \in {lat[i] : i \in 1..Len(lat)} :
        /\ Cardinality({i \in 1..Len(lat) : lat[i] < v}) <= j
        /\ j < Cardinality({i \in 1..Len(lat) : lat[i] <= v})

\* the interpolation of the specification, in hundredths
ReferencePercentile(lat, p) ==
    IF Len(lat) = 0 THEN 0
    ELSE LET n == Len(lat)
             k == (n - 1) * p
             f == k \div 100
             c == IF f + 1 <= n - 1 THEN f + 1 ELSE n - 1
         IN  IF f = c THEN 100 * OrderStat(lat, f)
             ELSE OrderStat(lat, f) * (100 * c - k) + OrderStat(lat, c) * (k - 100 * f)

\* C17: percentile(latencies, p) is 0 for an empty list and otherwise the
\* reference interpolation between the order statistics f and c; p = 0
\* gives the minimum, p = 100 the maximum, and
\* percentile([10, 20, 30, 40], 50) = 25.
C17_PercentileIsReference ==
    result.set =>
        LET lat == RawLatencies(results)
            vals == {lat[i] : i \in 1..Len(lat)}
        IN  /\ \A p \in Ranks : result.percentiles[p] = ReferencePercentile(lat, p)
            /\ lat = <<>> => \A p \in Ranks : result.percentiles[p] = 0
            /\ lat # <<>> =>
                  /\ \E v \in vals : /\ \A u \in vals : v <= u
                                      /\ result.percentiles[0] = 100 * v
                  /\ \E v \in vals : /\ \A u \in vals : v >= u
                                      /\ result.percentiles[100] = 100 * v
            /\ lat = <<10, 20, 30, 40>> => result.percentiles[50] = 2500

C17_Witness ==
    /\ result.set
    /\ RawLatencies(results) = <<40, 10, 30, 20>>
    /\ result.percentiles[50] = 2500
    /\ result.percentiles[0] = 1000
    /\ result.percentiles[90] = 3700

\* the replies of a run of n requests under the deterministic transport,
\* counted without reference to any order of completion
ExpectedCounts(n) ==
    LET calls_ == 1..n
        codes == {FixedReply(i) : i \in calls_} \ {Exc}
    IN  [total_requests |-> n,
         successful_requests |->
             Cardinality({i \in calls_ : FixedReply(i) # Exc /\ FixedReply(i) < 400}),
         failed_requests |->
             Cardinality({i \in calls_ : FixedReply(i) = Exc \/ FixedReply(i) >= 400}),
         transport_errors |-> Cardinality({i \in calls_ : FixedReply(i) = Exc}),
         status_codes |->
             [st \in codes |-> Cardinality({i \in calls_ : FixedReply(i) = st})]]

SummaryCounts(m) ==
    [total_requests |-> m.total_requests,
     successful_requests |-> m.successful_requests,
     failed_requests |-> m.failed_requests,
     transport_errors |-> m.transport_errors,
     status_codes |-> m.status_codes]

\* the outcomes in an order that does not depend on the order of completion
SortOutcomes(rs) ==
    SortSeq(rs, LAMBDA a, b : a[1] < b[1] \/ (a[1] = b[1] /\ a[2] < b[2]))

\* C16 (as stated): under a transport with a fixed latency and a fixed
\* sequence of replies, every completed run of a configuration reports the
\* same counts and the same percentiles: the counts fixed by the sequence of
\* replies and, every call taking the fixed latency, that latency as every
\* percentile.  Two runs that both satisfy this agree.
C16_CountsAndPercentilesFixed ==
    (runState = "Completed" /\ cfg.total_requests >= 1) =>
        /\ SummaryCounts(result.summary) = ExpectedCounts(cfg.total_requests)
        /\ \A q \in {result.summary.latency_ms.p50, result.summary.latency_ms.p90,
                     result.summary.latency_ms.p95, result.summary.latency_ms.p99} :
              q = 100 * FixedLatency * TickMs

\* C16 (amended): under the deterministic transport every completed run of a
\* configuration reports the counts fixed by the sequence of replies,
\* whatever the interleaving, and the whole summary, percentiles included,
\* is the one computed from the outcomes in sorted order: it depends on the
\* measured latencies but not on the order of completion.
C16_CountsFixed ==
    runState = "Completed" =>
        /\ SummaryCounts(result.summary) = ExpectedCounts(cfg.total_requests)
        /\ result.summary = Metrics(SortOutcomes(results))

\* a completed run whose second call finished before its first, with
\* different measured latencies
C16_Witness ==
    /\ runState = "Completed"
    /\ Len(results) = 2
    /\ IsTransportError(results[1])
    /\ IsSuccess(results[2])
    /\ results[1][1] # results[2][1]

C19_State ==
    /\ job.committed => record = JsonObject(result)
    /\ job.doneSent => job.committed
    /\ \A i \in 1..Len(channel) :
          channel[i].type = "done" =>
              /\ i = Len(channel)
              /\ job.committed
              /\ channel[i].metrics = record

C19_Step ==
    /\ job.committed => record' = record
    /\ (Len(channel') > Len(channel) /\ channel'[Len(channel')].type = "progress")
          => ~job.committed /\ ~job'.committed /\ ~result.set
    /\ (record' # record /\ "progress" \in DOMAIN record')
          => ~job.committed /\ ~job'.committed /\ ~result.set

\* C19: in the background job every progress publication and every progress
\* snapshot write happens before the final result is written to the row;
\* "done" is published only after that write; the final write is the last
\* write to the row; and whenever "done" has been published the row holds
\* the final result.
C19_JobOrdering == []C19_State /\ [][C19_Step]_vars

\* the job ran two requests, published both progress events and "done"
C19_Witness ==
    /\ job.doneSent
    /\ Len(channel) = 3
    /\ channel[1].type = "progress"
    /\ channel[2].type = "progress"
    /\ record = JsonObject(result)

InSeq(x, q) == \E i \in 1..Len(q) : q[i] = x

\* the handler has sent the client a snapshot of an existing row
SnapshotSent == obs.pc = "listening" /\ "absent" \notin DOMAIN obs.snapshot

\* the client holds the final result, by snapshot or by the forwarded "done"
FinalResultSeen ==
    /\ result.set
    /\ \/ obs.snapshot = JsonObject(result)
       \/ InSeq(DoneMessage, obs.delivered)

C20_State ==
    (SnapshotSent /\ job.committed) =>
        \/ obs.snapshot = JsonObject(result)
        \/ InSeq(DoneMessage, obs.delivered)
        \/ InSeq(DoneMessage, obs.inbox)
        \/ ~job.doneSent /\ obs.subscribed

\* C20: a client of /ws/run/{run_id} that connects at any point of the job,
\* for a run whose row exists, never misses the final result: once the
\* result is committed, its snapshot is the final result, or "done" has been
\* forwarded or is waiting in its subscription, or "done" is still to be
\* published to its subscription; and once "done" is published the client
\* eventually has the final result, by snapshot or by the forwarded "done".
C20_NeverMissesFinal ==
    /\ []C20_State
    /\ (SnapshotSent /\ job.doneSent) ~> FinalResultSeen

\* a client whose snapshot held a progress state and that was forwarded "done"
C20_Witness ==
    /\ SnapshotSent
    /\ job.doneSent
    /\ "progress" \in DOMAIN obs.snapshot
    /\ InSeq(DoneMessage, obs.delivered)

====
